---- MODULE Spec2Model ----
(***************************************************************************)
(* docker_pull_image.py: the command line entry point, get_auth_token and  *)
(* download_docker_image, as one sequential state machine.                 *)
(*                                                                         *)
(* Strings that the program takes apart or builds are sequences of tokens: *)
(*   "org/app:v1"        <<"org", "/", "app", ":", "v1">>                  *)
(*   "sha256:<hex>"      <<"sha256:", hex>>   (the prefix is 7 characters) *)
(*   "layer_<i>.tar.gz"  <<"layer_", i, ".tar.gz">>                        *)
(* A JSON object is a function from its keys: "k" in obj is                *)
(* "k" \in DOMAIN obj.  A response is [status_code, content_type, body];   *)
(* a body is JSON text ([kind |-> "json", obj]), text that is not JSON     *)
(* ([kind |-> "text"]) or blob bytes ([kind |-> "bytes", data]).           *)
(***************************************************************************)
EXTENDS Integers, Sequences, FiniteSets, TLC

\* ------------------------------------------------------------- bounds
\* longest layers sequence of a manifest the registry serves
MaxLayers == 2
\* longest manifests sequence of a manifest index the registry serves
MaxIndexLen == 2

\* ------------------------------------------------------------- values
Null == [null |-> TRUE]
NoExit == [how |-> "none", line |-> 0]

\* sys.argv: the positional image argument, -o and -a
ArgImages == { <<"ubuntu", ":", "20.04">>, <<"org", "/", "app", ":", "v1">>, <<"ubuntu">> }
ArgOutputs == { <<>>, <<"out.tar">> }
ArgArchs == { "amd64", "arm64" }

\* blob bytes and their sha256 hex digests
Bytes == { "b1", "b2" }
sha256_hexdigest(b) == IF b = "b1" THEN "h1" ELSE "h2"

StatusCodes == { 200, 404 }

TextBody == [kind |-> "text"]
JsonBody(o) == [kind |-> "json", obj |-> o]
BytesBody(b) == [kind |-> "bytes", data |-> b]
ErrorObj == [errors |-> "denied"]
TokenObj == [token |-> "tok"]
ConfigObj == [architecture |-> "amd64"]

\* entries of the layers sequence of a manifest; an entry may lack a key
LayerRefs ==
  { [digest |-> <<"sha256:", "h1">>, size |-> 1],
    [digest |-> <<"sha256:", "h2">>, size |-> 2],
    [size |-> 1],
    [digest |-> <<"sha256:", "h1">>] }

ConfigRefs == { [digest |-> <<"sha256:", "h9">>, size |-> 1], [size |-> 1] }

SeqsUpTo(S, n) == UNION { [1..k -> S] : k \in 0..n }

\* manifest objects: with or without "layers", with or without "config"
ManifestObjs ==
  { [layers |-> ls, config |-> c] : ls \in SeqsUpTo(LayerRefs, MaxLayers), c \in ConfigRefs }
  \cup { [layers |-> ls] : ls \in SeqsUpTo(LayerRefs, MaxLayers) }
  \cup { [config |-> c] : c \in ConfigRefs }

\* entries of the manifests sequence of an index
Descriptors ==
  { [platform |-> [architecture |-> "amd64", os |-> "linux"], digest |-> <<"sha256:", "m1">>],
    [platform |-> [architecture |-> "amd64", os |-> "windows"], digest |-> <<"sha256:", "m2">>],
    [platform |-> [architecture |-> "arm64", os |-> "linux"], digest |-> <<"sha256:", "m3">>],
    [digest |-> <<"sha256:", "m4">>],
    [platform |-> [architecture |-> "amd64", os |-> "linux"]] }

IndexObjs == { [manifests |-> ms] : ms \in SeqsUpTo(Descriptors, MaxIndexLen) } \cup { ErrorObj }

ContentTypes ==
  { "application/vnd.docker.distribution.manifest.list.v2+json",
    "application/vnd.oci.image.index.v1+json",
    "application/vnd.docker.distribution.manifest.v2+json" }

\* what an HTTP GET can give back; "raise" is requests.get raising instead
Response(s, ct, b) == [status_code |-> s, content_type |-> ct, body |-> b]
ErrorBodies == { JsonBody(ErrorObj), TextBody }
TokenResponses ==
  { Response(200, "application/json", JsonBody(TokenObj)),
    Response(404, "application/json", JsonBody(TokenObj)) }
  \cup { Response(s, "application/json", b) : s \in StatusCodes, b \in ErrorBodies }
ManifestResponses ==
  { Response(200, ct, JsonBody(o)) : ct \in ContentTypes, o \in ManifestObjs \cup IndexObjs }
  \cup { Response(s, ct, b) : s \in StatusCodes, ct \in ContentTypes, b \in ErrorBodies }
ConfigResponses ==
  { Response(s, "application/octet-stream", b) :
      s \in StatusCodes, b \in { JsonBody(ConfigObj), JsonBody(ErrorObj), TextBody } }
LayerResponses ==
  { Response(s, "application/octet-stream", BytesBody(b)) : s \in StatusCodes, b \in Bytes }

\* ------------------------------------------------------------- state
VARIABLES
  pc,              \* position in the program
  exit,            \* how and where the run ended: [how, line]
  args,            \* argparse result: [image, output, arch]
  image, tag, save_path, architecture,   \* parameters of download_docker_image
  repo,
  auth_response,   \* response of get_auth_token
  headers,         \* [Authorization, Accept]
  requests,        \* every requests.get issued so far, in order
  response,        \* the manifest response
  m,               \* loop variable of the index scan
  manifest_digest,
  manifest,
  config_digest, config_response, config, config_file,
  i,               \* loop variable of the layer loop
  layer_digest, layer_response,
  verify_log,      \* per layer, the verification message printed
  manifest_json,
  tar,             \* entries added to the archive, in order: [name, data]
  tar_state,       \* "none", "open", "closed" (finalised), "partial" (left by a raise)
  files            \* per-entry files in the working directory: [name, data]

vars == << pc, exit, args, image, tag, save_path, architecture, repo, auth_response,
           headers, requests, response, m, manifest_digest, manifest, config_digest,
           config_response, config, config_file, i, layer_digest, layer_response,
           verify_log, manifest_json, tar, tar_state, files >>

Init ==
  /\ pc = "main"
  /\ exit = NoExit
  /\ args \in [image : ArgImages, output : ArgOutputs, arch : ArgArchs]
  /\ image = <<>> /\ tag = <<>> /\ save_path = <<>> /\ architecture = ""
  /\ repo = <<>>
  /\ auth_response = Null
  /\ headers = Null
  /\ requests = <<>>
  /\ response = Null
  /\ m = Null
  /\ manifest_digest = <<>>
  /\ manifest = Null
  /\ config_digest = <<>> /\ config_response = Null /\ config = Null /\ config_file = <<>>
  /\ i = 0
  /\ layer_digest = <<>> /\ layer_response = Null
  /\ verify_log = <<>>
  /\ manifest_json = <<>>
  /\ tar = <<>>
  /\ tar_state = "none"
  /\ files = {}

\* ------------------------------------------------------------- helpers
\* str.split(sep, 1): cut at the first sep, or the whole string when there is none
split1(s, sep) ==
  IF \E k \in 1..Len(s) : s[k] = sep
  THEN LET k == CHOOSE k \in 1..Len(s) : s[k] = sep /\ \A j \in 1..(k-1) : s[j] # sep
       IN << SubSeq(s, 1, k-1), SubSeq(s, k+1, Len(s)) >>
  ELSE << s >>

\* image.split('/')[-1]: what follows the last '/'
LastSegment(s) ==
  IF \E k \in 1..Len(s) : s[k] = "/"
  THEN LET k == CHOOSE k \in 1..Len(s) : s[k] = "/" /\ \A j \in (k+1)..Len(s) : s[j] # "/"
       IN SubSeq(s, k+1, Len(s))
  ELSE s

Request(endpoint, r, ref, h) == [endpoint |-> endpoint, repo |-> r, ref |-> ref, headers |-> h]

\* requests.get either returns a response or raises (the host cannot be reached)
Raised == [raised |-> "ConnectionError"]

\* LayerFile with the index counted from one
LayerFileOneBased(k) == << "layer_", k + 1, ".tar.gz" >>

LayerFile(k) == << "layer_", k, ".tar.gz" >>
ManifestFile == << "manifest.json" >>
File(name, data) == [name |-> name, data |-> data]

\* the position after the layer loop's test, for loop index k (zero-based)
LoopNext(k) == IF k < Len(manifest.layers) THEN "fetch_layer" ELSE "write_descriptor"

\* the run goes on at position p
Goto(p) == pc' = p /\ UNCHANGED << exit, tar_state >>

\* the run ends by return, raise or sys.exit at a line; a raise inside the
\* with block closes the archive file without completing it
End(how, line) ==
  /\ pc' = "end"
  /\ exit' = [how |-> how, line |-> line]
  /\ tar_state' = IF tar_state = "open" THEN "partial" ELSE tar_state

\* Main that takes an argument without ':' as the image with tag "latest"
MainDefaultTag ==
  /\ pc = "main"
  /\ LET parts == split1(args.image, ":") IN
       /\ image' = parts[1]
       /\ tag' = IF Len(parts) # 2 THEN << "latest" >> ELSE parts[2]
       /\ save_path' = args.output
       /\ architecture' = args.arch
       /\ Goto("normalize")
  /\ UNCHANGED << args, repo, auth_response, headers, requests, response, m,
                  manifest_digest, manifest, config_digest, config_response, config,
                  config_file, i, layer_digest, layer_response, verify_log,
                  manifest_json, tar, files >>

\* ------------------------------------------------------------- __main__
\* lines 137-143: split the image argument at the first ':' and call
\* download_docker_image(image, tag, args.output, args.arch)
Main ==
  /\ pc = "main"
  /\ LET parts == split1(args.image, ":") IN
       IF Len(parts) # 2
       THEN /\ End("sysexit", 141)
            /\ UNCHANGED << image, tag, save_path, architecture >>
       ELSE /\ image' = parts[1]
            /\ tag' = parts[2]
            /\ save_path' = args.output
            /\ architecture' = args.arch
            /\ Goto("normalize")
  /\ UNCHANGED << args, repo, auth_response, headers, requests, response, m,
                  manifest_digest, manifest, config_digest, config_response, config,
                  config_file, i, layer_digest, layer_response, verify_log,
                  manifest_json, tar, files >>

\* ------------------------------------------------------------- download_docker_image
\* NormalizedRepo that prefixes every name
NormalizedRepoAlways(img) == << "library", "/" >> \o img

\* lines 17-20
NormalizedRepo(img) ==
  IF ~ \E k \in 1..Len(img) : img[k] = "/" THEN << "library", "/" >> \o img ELSE img

Normalize ==
  /\ pc = "normalize"
  /\ repo' = NormalizedRepo(image)
  /\ Goto("get_auth_token")
  /\ UNCHANGED << args, image, tag, save_path, architecture, auth_response, headers,
                  requests, response, m, manifest_digest, manifest, config_digest,
                  config_response, config, config_file, i, layer_digest, layer_response,
                  verify_log, manifest_json, tar, files >>

\* lines 10-13 and 22-26: the token request; the status code is not looked at
GetAuthToken ==
  /\ pc = "get_auth_token"
  /\ requests' = Append(requests, Request("token", repo, <<>>, Null))
  /\ \E r \in TokenResponses \cup { Raised } :
       IF r = Raised
       THEN End("raise", 12) /\ UNCHANGED << auth_response, headers >>
       ELSE /\ auth_response' = r
            /\ IF r.body.kind # "json" \/ "token" \notin DOMAIN r.body.obj
               THEN End("raise", 13) /\ UNCHANGED headers
               ELSE /\ headers' = [Authorization |-> << "Bearer ", r.body.obj.token >>,
                                   Accept |-> "list.v2,manifest.v2,oci.manifest.v1"]
                    /\ Goto("get_manifest")
  /\ UNCHANGED << args, image, tag, save_path, architecture, repo, response, m,
                  manifest_digest, manifest, config_digest, config_response, config,
                  config_file, i, layer_digest, layer_response, verify_log,
                  manifest_json, tar, files >>

\* lines 28-34: the manifest request by tag
GetManifest ==
  /\ pc = "get_manifest"
  /\ requests' = Append(requests, Request("manifests", repo, tag, headers))
  /\ \E r \in ManifestResponses \cup { Raised } :
       IF r = Raised
       THEN End("raise", 30) /\ UNCHANGED response
       ELSE /\ response' = r
            /\ IF r.status_code # 200 THEN End("return", 34) ELSE Goto("content_type")
  /\ UNCHANGED << args, image, tag, save_path, architecture, repo, auth_response, headers,
                  m, manifest_digest, manifest, config_digest, config_response, config,
                  config_file, i, layer_digest, layer_response, verify_log,
                  manifest_json, tar, files >>

IndexContentTypes ==
  { "application/vnd.docker.distribution.manifest.list.v2+json",
    "application/vnd.oci.image.index.v1+json" }

\* lines 36-38 and 58-59: an index by its Content-Type, else the body is the manifest
ContentType ==
  /\ pc = "content_type"
  /\ IF response.content_type \in IndexContentTypes
     THEN Goto("select") /\ UNCHANGED manifest
     ELSE IF response.body.kind # "json"
          THEN End("raise", 59) /\ UNCHANGED manifest
          ELSE manifest' = response.body.obj /\ Goto("validate")
  /\ UNCHANGED << args, image, tag, save_path, architecture, repo, auth_response, headers,
                  requests, response, m, manifest_digest, config_digest, config_response,
                  config, config_file, i, layer_digest, layer_response, verify_log,
                  manifest_json, tar, files >>

\* PlatformMatches without the test of platform.os
PlatformMatchesArchOnly(d, arch) ==
  /\ "platform" \in DOMAIN d
  /\ "architecture" \in DOMAIN d.platform /\ d.platform.architecture = arch

\* line 42
PlatformMatches(d, arch) ==
  /\ "platform" \in DOMAIN d
  /\ "architecture" \in DOMAIN d.platform /\ d.platform.architecture = arch
  /\ "os" \in DOMAIN d.platform /\ d.platform.os = "linux"

\* lines 41-44: the for loop from entry k on; the position of the entry it
\* breaks at, or 0 when it runs to the end
RECURSIVE ScanManifests(_, _, _)
ScanManifests(ms, k, arch) ==
  IF k > Len(ms) THEN 0
  ELSE IF PlatformMatches(ms[k], arch) THEN k
  ELSE ScanManifests(ms, k + 1, arch)

\* SelectPlatform whose for loop has no else branch: without a match the
\* second request is made for the tag
SelectPlatformFallThrough ==
  /\ pc = "select"
  /\ IF response.body.kind # "json"
     THEN End("raise", 40) /\ UNCHANGED << m, manifest_digest >>
     ELSE LET manifest_list == response.body.obj
              ms == IF "manifests" \in DOMAIN manifest_list THEN manifest_list.manifests ELSE <<>>
              k == ScanManifests(ms, 1, architecture)
          IN IF k = 0
             THEN /\ m' = IF Len(ms) > 0 THEN ms[Len(ms)] ELSE m
                  /\ manifest_digest' = tag
                  /\ Goto("get_manifest_by_digest")
             ELSE /\ m' = ms[k]
                  /\ IF "digest" \notin DOMAIN ms[k]
                     THEN End("raise", 43) /\ UNCHANGED manifest_digest
                     ELSE manifest_digest' = ms[k].digest /\ Goto("get_manifest_by_digest")
  /\ UNCHANGED << args, image, tag, save_path, architecture, repo, auth_response, headers,
                  requests, response, manifest, config_digest, config_response, config,
                  config_file, i, layer_digest, layer_response, verify_log,
                  manifest_json, tar, files >>

\* lines 39-47: choose the platform's manifest from the index
SelectPlatform ==
  /\ pc = "select"
  /\ IF response.body.kind # "json"
     THEN End("raise", 40) /\ UNCHANGED << m, manifest_digest >>
     ELSE LET manifest_list == response.body.obj
              ms == IF "manifests" \in DOMAIN manifest_list THEN manifest_list.manifests ELSE <<>>
              k == ScanManifests(ms, 1, architecture)
          IN IF k = 0
             THEN /\ m' = IF Len(ms) > 0 THEN ms[Len(ms)] ELSE m
                  /\ End("return", 47)
                  /\ UNCHANGED manifest_digest
             ELSE /\ m' = ms[k]
                  /\ IF "digest" \notin DOMAIN ms[k]
                     THEN End("raise", 43) /\ UNCHANGED manifest_digest
                     ELSE manifest_digest' = ms[k].digest /\ Goto("get_manifest_by_digest")
  /\ UNCHANGED << args, image, tag, save_path, architecture, repo, auth_response, headers,
                  requests, response, manifest, config_digest, config_response, config,
                  config_file, i, layer_digest, layer_response, verify_log,
                  manifest_json, tar, files >>

\* GetManifestByDigest that asks for the tag again
GetManifestByDigestByTag ==
  /\ pc = "get_manifest_by_digest"
  /\ headers' = [headers EXCEPT !.Accept = "manifest.v2,oci.manifest.v1"]
  /\ requests' = Append(requests, Request("manifests", repo, tag, headers'))
  /\ \E r \in ManifestResponses \cup { Raised } :
       IF r = Raised
       THEN End("raise", 52) /\ UNCHANGED << response, manifest >>
       ELSE /\ response' = r
            /\ IF r.status_code # 200
               THEN End("return", 56) /\ UNCHANGED manifest
               ELSE IF r.body.kind # "json"
                    THEN End("raise", 57) /\ UNCHANGED manifest
                    ELSE manifest' = r.body.obj /\ Goto("validate")
  /\ UNCHANGED << args, image, tag, save_path, architecture, repo, auth_response, m,
                  manifest_digest, config_digest, config_response, config, config_file, i,
                  layer_digest, layer_response, verify_log, manifest_json, tar, files >>

\* GetManifestByDigest without the status test of lines 53-56
GetManifestByDigestNoStatusCheck ==
  /\ pc = "get_manifest_by_digest"
  /\ headers' = [headers EXCEPT !.Accept = "manifest.v2,oci.manifest.v1"]
  /\ requests' = Append(requests, Request("manifests", repo, manifest_digest, headers'))
  /\ \E r \in ManifestResponses \cup { Raised } :
       IF r = Raised
       THEN End("raise", 52) /\ UNCHANGED << response, manifest >>
       ELSE /\ response' = r
            /\ IF r.body.kind # "json"
               THEN End("raise", 57) /\ UNCHANGED manifest
               ELSE manifest' = r.body.obj /\ Goto("validate")
  /\ UNCHANGED << args, image, tag, save_path, architecture, repo, auth_response, m,
                  manifest_digest, config_digest, config_response, config, config_file, i,
                  layer_digest, layer_response, verify_log, manifest_json, tar, files >>

\* lines 49-57: the manifest request by digest
GetManifestByDigest ==
  /\ pc = "get_manifest_by_digest"
  /\ headers' = [headers EXCEPT !.Accept = "manifest.v2,oci.manifest.v1"]
  /\ requests' = Append(requests, Request("manifests", repo, manifest_digest, headers'))
  /\ \E r \in ManifestResponses \cup { Raised } :
       IF r = Raised
       THEN End("raise", 52) /\ UNCHANGED << response, manifest >>
       ELSE /\ response' = r
            /\ IF r.status_code # 200
               THEN End("return", 56) /\ UNCHANGED manifest
               ELSE IF r.body.kind # "json"
                    THEN End("raise", 57) /\ UNCHANGED manifest
                    ELSE manifest' = r.body.obj /\ Goto("validate")
  /\ UNCHANGED << args, image, tag, save_path, architecture, repo, auth_response, m,
                  manifest_digest, config_digest, config_response, config, config_file, i,
                  layer_digest, layer_response, verify_log, manifest_json, tar, files >>

\* lines 61-64
Validate ==
  /\ pc = "validate"
  /\ IF "layers" \notin DOMAIN manifest THEN End("return", 64) ELSE Goto("get_config")
  /\ UNCHANGED << args, image, tag, save_path, architecture, repo, auth_response, headers,
                  requests, response, m, manifest_digest, manifest, config_digest,
                  config_response, config, config_file, i, layer_digest, layer_response,
                  verify_log, manifest_json, tar, files >>

\* the JSON object {}
EmptyObj == [k \in {} |-> ""]

\* lines 66-73: the config blob request; the status code is not looked at
GetConfig ==
  /\ pc = "get_config"
  /\ IF "config" \in DOMAIN manifest
     THEN IF "digest" \notin DOMAIN manifest.config
          THEN /\ End("raise", 67)
               /\ UNCHANGED << config_digest, requests, config_response, config >>
          ELSE /\ config_digest' = manifest.config.digest
               /\ requests' = Append(requests, Request("blobs", repo, config_digest', headers))
               /\ \E r \in ConfigResponses \cup { Raised } :
                    IF r = Raised
                    THEN End("raise", 69) /\ UNCHANGED << config_response, config >>
                    ELSE /\ config_response' = r
                         /\ IF r.body.kind # "json"
                            THEN End("raise", 70) /\ UNCHANGED config
                            ELSE config' = r.body.obj /\ Goto("total_size")
     ELSE /\ config' = EmptyObj
          /\ Goto("total_size")
          /\ UNCHANGED << config_digest, requests, config_response >>
  /\ UNCHANGED << args, image, tag, save_path, architecture, repo, auth_response, headers,
                  response, m, manifest_digest, manifest, config_file, i, layer_digest,
                  layer_response, verify_log, manifest_json, tar, files >>

\* lines 75-79: the size sum reads every layer's size; the default save_path
TotalSize ==
  /\ pc = "total_size"
  /\ IF \E k \in 1..Len(manifest.layers) : "size" \notin DOMAIN manifest.layers[k]
     THEN End("raise", 75) /\ UNCHANGED save_path
     ELSE /\ save_path' = IF save_path = <<>>
                          THEN LastSegment(image) \o << "_" >> \o tag \o << ".tar" >>
                          ELSE save_path
          /\ Goto("open_tar")
  /\ UNCHANGED << args, image, tag, architecture, repo, auth_response, headers, requests,
                  response, m, manifest_digest, manifest, config_digest, config_response,
                  config, config_file, i, layer_digest, layer_response, verify_log,
                  manifest_json, tar, files >>

\* line 81: tarfile.open(save_path, "w") creates the archive file
OpenTar ==
  /\ pc = "open_tar"
  /\ tar_state' = "open"
  /\ pc' = "write_config"
  /\ UNCHANGED << exit, args, image, tag, save_path, architecture, repo, auth_response,
                  headers, requests, response, m, manifest_digest, manifest, config_digest,
                  config_response, config, config_file, i, layer_digest, layer_response,
                  verify_log, manifest_json, tar, files >>

\* WriteConfig that names the file by the whole digest, prefix included
WriteConfigKeepPrefix ==
  /\ pc = "write_config"
  /\ IF "config" \in DOMAIN manifest
     THEN /\ config_file' = config_digest \o << ".json" >>
          /\ files' = files \cup { File(config_file', JsonBody(config)) }
     ELSE /\ config_file' = << "config.json" >>
          /\ files' = files \cup { File(config_file', JsonBody(EmptyObj)) }
  /\ Goto("add_config")
  /\ UNCHANGED << args, image, tag, save_path, architecture, repo, auth_response, headers,
                  requests, response, m, manifest_digest, manifest, config_digest,
                  config_response, config, i, layer_digest, layer_response, verify_log,
                  manifest_json, tar >>

\* lines 82-85 and 88-91: the config file; config_digest[7:] drops "sha256:"
WriteConfig ==
  /\ pc = "write_config"
  /\ IF "config" \in DOMAIN manifest
     THEN /\ config_file' = Tail(config_digest) \o << ".json" >>
          /\ files' = files \cup { File(config_file', JsonBody(config)) }
     ELSE /\ config_file' = << "config.json" >>
          /\ files' = files \cup { File(config_file', JsonBody(EmptyObj)) }
  /\ Goto("add_config")
  /\ UNCHANGED << args, image, tag, save_path, architecture, repo, auth_response, headers,
                  requests, response, m, manifest_digest, manifest, config_digest,
                  config_response, config, i, layer_digest, layer_response, verify_log,
                  manifest_json, tar >>

\* the file of the working directory with this name
FileNamed(name) == CHOOSE f \in files : f.name = name

\* lines 86-87 and 92-93, then the first test of the layer loop (line 95)
AddConfig ==
  /\ pc = "add_config"
  /\ tar' = Append(tar, FileNamed(config_file))
  /\ files' = files \ { FileNamed(config_file) }
  /\ i' = 0
  /\ Goto(LoopNext(0))
  /\ UNCHANGED << args, image, tag, save_path, architecture, repo, auth_response, headers,
                  requests, response, m, manifest_digest, manifest, config_digest,
                  config_response, config, config_file, layer_digest, layer_response,
                  verify_log, manifest_json >>

\* lines 96-98: the layer blob request; the status code is not looked at
FetchLayer ==
  /\ pc = "fetch_layer"
  /\ LET layer == manifest.layers[i + 1] IN
       IF "digest" \notin DOMAIN layer
       THEN End("raise", 96) /\ UNCHANGED << layer_digest, requests, layer_response >>
       ELSE /\ layer_digest' = layer.digest
            /\ requests' = Append(requests, Request("blobs", repo, layer_digest', headers))
            /\ \E r \in LayerResponses \cup { Raised } :
                 IF r = Raised
                 THEN End("raise", 98) /\ UNCHANGED layer_response
                 ELSE layer_response' = r /\ Goto("write_layer")
  /\ UNCHANGED << args, image, tag, save_path, architecture, repo, auth_response, headers,
                  response, m, manifest_digest, manifest, config_digest, config_response,
                  config, config_file, i, verify_log, manifest_json, tar, files >>

\* what is on disk of a body whose stream broke off
Truncated == BytesBody("truncated")

\* WriteLayer after which the file is added without the verification
WriteLayerSkipVerify ==
  /\ pc = "write_layer"
  /\ \/ /\ files' = files \cup { File(LayerFile(i), layer_response.body) }
        /\ Goto("add_layer")
     \/ /\ files' = files \cup { File(LayerFile(i), Truncated) }
        /\ End("raise", 101)
  /\ UNCHANGED << args, image, tag, save_path, architecture, repo, auth_response, headers,
                  requests, response, m, manifest_digest, manifest, config_digest,
                  config_response, config, config_file, i, layer_digest, layer_response,
                  verify_log, manifest_json, tar >>

\* lines 99-102: stream the body into layer_<i>.tar.gz; the stream may break off
WriteLayer ==
  /\ pc = "write_layer"
  /\ \/ /\ files' = files \cup { File(LayerFile(i), layer_response.body) }
        /\ Goto("verify_layer")
     \/ /\ files' = files \cup { File(LayerFile(i), Truncated) }
        /\ End("raise", 101)
  /\ UNCHANGED << args, image, tag, save_path, architecture, repo, auth_response, headers,
                  requests, response, m, manifest_digest, manifest, config_digest,
                  config_response, config, config_file, i, layer_digest, layer_response,
                  verify_log, manifest_json, tar >>

\* VerifyLayer that raises on a mismatch
VerifyLayerFailFast ==
  /\ pc = "verify_layer"
  /\ LET file_hash == sha256_hexdigest(FileNamed(LayerFile(i)).data.data) IN
       IF << "sha256:", file_hash >> # layer_digest
       THEN /\ verify_log' = Append(verify_log, "hash mismatch")
            /\ End("raise", 108)
       ELSE /\ verify_log' = Append(verify_log, "verified successfully")
            /\ Goto("add_layer")
  /\ UNCHANGED << args, image, tag, save_path, architecture, repo, auth_response, headers,
                  requests, response, m, manifest_digest, manifest, config_digest,
                  config_response, config, config_file, i, layer_digest, layer_response,
                  manifest_json, tar, files >>

\* lines 104-110: hash the file and print the result; nothing else depends on it
VerifyLayer ==
  /\ pc = "verify_layer"
  /\ LET file_hash == sha256_hexdigest(FileNamed(LayerFile(i)).data.data) IN
       verify_log' = Append(verify_log,
                            IF << "sha256:", file_hash >> # layer_digest
                            THEN "hash mismatch" ELSE "verified successfully")
  /\ Goto("add_layer")
  /\ UNCHANGED << args, image, tag, save_path, architecture, repo, auth_response, headers,
                  requests, response, m, manifest_digest, manifest, config_digest,
                  config_response, config, config_file, i, layer_digest, layer_response,
                  manifest_json, tar, files >>

\* AddLayer that leaves the file to be added after the loop
AddLayerDeferred ==
  /\ pc = "add_layer"
  /\ UNCHANGED << tar, files >>
  /\ IF i + 1 < Len(manifest.layers)
     THEN i' = i + 1 /\ Goto("fetch_layer")
     ELSE i' = i /\ Goto("write_descriptor")
  /\ UNCHANGED << args, image, tag, save_path, architecture, repo, auth_response, headers,
                  requests, response, m, manifest_digest, manifest, config_digest,
                  config_response, config, config_file, layer_digest, layer_response,
                  verify_log, manifest_json >>

\* lines 112-113, then the next test of the layer loop (line 95)
AddLayer ==
  /\ pc = "add_layer"
  /\ tar' = Append(tar, FileNamed(LayerFile(i)))
  /\ files' = files \ { FileNamed(LayerFile(i)) }
  /\ IF i + 1 < Len(manifest.layers)
     THEN i' = i + 1 /\ Goto("fetch_layer")
     ELSE i' = i /\ Goto("write_descriptor")
  /\ UNCHANGED << args, image, tag, save_path, architecture, repo, auth_response, headers,
                  requests, response, m, manifest_digest, manifest, config_digest,
                  config_response, config, config_file, layer_digest, layer_response,
                  verify_log, manifest_json >>

\* a JSON array written to a file
JsonList(items) == [kind |-> "json_list", items |-> items]

\* WriteDescriptor that tags the image by the normalized repository
WriteDescriptorRepoTag ==
  /\ pc = "write_descriptor"
  /\ manifest_json' = << [Config |-> config_file,
                          RepoTags |-> << repo \o << ":" >> \o tag >>,
                          Layers |-> [k \in 1..Len(manifest.layers) |-> LayerFile(k - 1)]] >>
  /\ files' = files \cup { File(ManifestFile, JsonList(manifest_json')) }
  /\ Goto("add_descriptor")
  /\ UNCHANGED << args, image, tag, save_path, architecture, repo, auth_response, headers,
                  requests, response, m, manifest_digest, manifest, config_digest,
                  config_response, config, config_file, i, layer_digest, layer_response,
                  verify_log, tar >>

\* WriteDescriptor with the Layers list built in reverse
WriteDescriptorReversed ==
  /\ pc = "write_descriptor"
  /\ manifest_json' = << [Config |-> config_file,
                          RepoTags |-> << image \o << ":" >> \o tag >>,
                          Layers |-> [k \in 1..Len(manifest.layers) |->
                                        LayerFile(Len(manifest.layers) - k)]] >>
  /\ files' = files \cup { File(ManifestFile, JsonList(manifest_json')) }
  /\ Goto("add_descriptor")
  /\ UNCHANGED << args, image, tag, save_path, architecture, repo, auth_response, headers,
                  requests, response, m, manifest_digest, manifest, config_digest,
                  config_response, config, config_file, i, layer_digest, layer_response,
                  verify_log, tar >>

\* lines 115-121: the descriptor and its file manifest.json
WriteDescriptor ==
  /\ pc = "write_descriptor"
  /\ manifest_json' = << [Config |-> config_file,
                          RepoTags |-> << image \o << ":" >> \o tag >>,
                          Layers |-> [k \in 1..Len(manifest.layers) |-> LayerFile(k - 1)]] >>
  /\ files' = files \cup { File(ManifestFile, JsonList(manifest_json')) }
  /\ Goto("add_descriptor")
  /\ UNCHANGED << args, image, tag, save_path, architecture, repo, auth_response, headers,
                  requests, response, m, manifest_digest, manifest, config_digest,
                  config_response, config, config_file, i, layer_digest, layer_response,
                  verify_log, tar >>

\* lines 122-123 and the end of the with block, which completes the archive
AddDescriptor ==
  /\ pc = "add_descriptor"
  /\ tar' = Append(tar, FileNamed(ManifestFile))
  /\ files' = files \ { FileNamed(ManifestFile) }
  /\ tar_state' = "closed"
  /\ pc' = "report"
  /\ UNCHANGED << exit, args, image, tag, save_path, architecture, repo, auth_response,
                  headers, requests, response, m, manifest_digest, manifest, config_digest,
                  config_response, config, config_file, i, layer_digest, layer_response,
                  verify_log, manifest_json >>

\* lines 125-127: the closing messages; the function returns
Report ==
  /\ pc = "report"
  /\ End("done", 127)
  /\ UNCHANGED << args, image, tag, save_path, architecture, repo, auth_response, headers,
                  requests, response, m, manifest_digest, manifest, config_digest,
                  config_response, config, config_file, i, layer_digest, layer_response,
                  verify_log, manifest_json, tar, files >>

Next ==
  \/ Main
  \/ Normalize
  \/ GetAuthToken
  \/ GetManifest
  \/ ContentType
  \/ SelectPlatform
  \/ GetManifestByDigest
  \/ Validate
  \/ GetConfig
  \/ TotalSize
  \/ OpenTar
  \/ WriteConfig
  \/ AddConfig
  \/ FetchLayer
  \/ WriteLayer
  \/ VerifyLayer
  \/ AddLayer
  \/ WriteDescriptor
  \/ AddDescriptor
  \/ Report

Spec == Init /\ [][Next]_vars

\* a sequential program takes its next step as long as it has one
FairSpec == Spec /\ WF_vars(Next)

\* ------------------------------------------------------------- properties
NLayers == IF "layers" \in DOMAIN manifest THEN Len(manifest.layers) ELSE 0
BlobRequests == SelectSeq(requests, LAMBDA r : r.endpoint = "blobs")
ManifestRequests == SelectSeq(requests, LAMBDA r : r.endpoint = "manifests")

\* C1: the entries added to the archive so far are a prefix of
\* <config entry, layer_0.tar.gz, ..., layer_{N-1}.tar.gz, manifest.json>,
\* N the number of layers of the resolved manifest.
C1_ArchiveOrder ==
  /\ Len(tar) <= NLayers + 2
  /\ Len(tar) > 0 => "layers" \in DOMAIN manifest
  /\ \A k \in 1..Len(tar) :
       /\ k = 1 => tar[k].name = config_file /\ tar[k].name[Len(tar[k].name)] \in { ".json", "config.json" }
       /\ (1 < k /\ k <= NLayers + 1) => tar[k].name = << "layer_", k - 2, ".tar.gz" >>
       /\ k = NLayers + 2 => tar[k].name = << "manifest.json" >>

\* a finalised archive of a manifest with two layers
C1_Witness == tar_state = "closed" /\ NLayers = 2 /\ Len(tar) = 4

\* C2: a run that finalises the archive of a manifest with N layers has
\* produced exactly the entries layer_0.tar.gz .. layer_{N-1}.tar.gz, one
\* config entry and one manifest.json, and the descriptor's Layers lists the
\* layer file names in the order of the manifest's layers, the order in which
\* the layer blobs were requested and added.
C2_RoundTrip ==
  tar_state = "closed" =>
    LET n == Len(manifest.layers)
        off == IF "config" \in DOMAIN manifest THEN 1 ELSE 0
    IN /\ Len(tar) = n + 2
       /\ \A j \in 0..(n - 1) :
            Cardinality({ k \in 1..Len(tar) : tar[k].name = << "layer_", j, ".tar.gz" >> }) = 1
       /\ Cardinality({ k \in 1..Len(tar) : tar[k].name[1] = "layer_" }) = n
       /\ Cardinality({ k \in 1..Len(tar) : tar[k].name = config_file }) = 1
       /\ Cardinality({ k \in 1..Len(tar) : tar[k].name = << "manifest.json" >> }) = 1
       /\ Len(manifest_json) = 1
       /\ Len(manifest_json[1].Layers) = n
       /\ Len(BlobRequests) = n + off
       /\ \A j \in 1..n :
            /\ manifest_json[1].Layers[j] = << "layer_", j - 1, ".tar.gz" >>
            /\ tar[j + 1].name = manifest_json[1].Layers[j]
            /\ BlobRequests[off + j].ref = manifest.layers[j].digest

\* a finalised archive of a manifest whose two layers have different digests
C2_Witness ==
  /\ tar_state = "closed"
  /\ NLayers = 2
  /\ manifest.layers[1].digest # manifest.layers[2].digest

\* C3: out of a manifest index the first entry, in index order, whose
\* platform.architecture is the requested architecture and whose platform.os
\* is "linux" is selected, and no other: the choice is a function of the
\* index and the architecture, and an entry that matches one field only, or
\* has no platform, is never selected.
C3_FirstMatchSelected ==
  (pc = "get_manifest_by_digest" \/ (pc = "end" /\ exit = [how |-> "raise", line |-> 43])) =>
    LET ms == response.body.obj.manifests IN
      \E k \in 1..Len(ms) :
        /\ m = ms[k]
        /\ "platform" \in DOMAIN m
        /\ m.platform.architecture = architecture
        /\ m.platform.os = "linux"
        /\ pc = "get_manifest_by_digest" => manifest_digest = ms[k].digest
        /\ \A j \in 1..(k - 1) :
             ~ ( /\ "platform" \in DOMAIN ms[j]
                 /\ ms[j].platform.architecture = architecture
                 /\ ms[j].platform.os = "linux" )

\* the second entry is selected after a first one of the requested
\* architecture and another os
C3_Witness ==
  /\ pc = "get_manifest_by_digest"
  /\ Len(response.body.obj.manifests) = 2
  /\ "platform" \in DOMAIN response.body.obj.manifests[1]
  /\ response.body.obj.manifests[1].platform.architecture = architecture
  /\ response.body.obj.manifests[1].platform.os # "linux"
  /\ m = response.body.obj.manifests[2]

\* the top-level response is a manifest index none of whose entries is for
\* the requested architecture and os "linux"
IndexWithoutMatch ==
  /\ response.content_type \in { "application/vnd.docker.distribution.manifest.list.v2+json",
                                 "application/vnd.oci.image.index.v1+json" }
  /\ response.body.kind = "json"
  /\ LET ms == IF "manifests" \in DOMAIN response.body.obj
               THEN response.body.obj.manifests ELSE <<>>
     IN \A k \in 1..Len(ms) :
          ~ ( /\ "platform" \in DOMAIN ms[k]
              /\ ms[k].platform.architecture = architecture
              /\ ms[k].platform.os = "linux" )

\* C4: when the top-level response is an index without an entry for the
\* requested architecture and os "linux", the selection step ends the run by
\* its return, with the token request and the manifest request by tag the
\* only requests made and no archive created, and an ended run takes no
\* further step: no request, no archive, no file.
C4_NoMatchEndsRun ==
  [][ /\ (pc = "select" /\ IndexWithoutMatch) =>
           /\ pc' = "end"
           /\ exit' = [how |-> "return", line |-> 47]
           /\ requests' = requests
           /\ Len(requests) = 2
           /\ Len(BlobRequests) = 0
           /\ tar_state' = "none" /\ tar' = <<>> /\ files' = {}
      /\ pc = "end" => UNCHANGED << requests, tar_state, tar, files >>
    ]_vars

\* a run ended by an index of two entries, each matching in one field only
C4_Witness ==
  /\ pc = "end"
  /\ exit = [how |-> "return", line |-> 47]
  /\ architecture = "amd64"
  /\ "manifests" \in DOMAIN response.body.obj
  /\ Len(response.body.obj.manifests) = 2
  /\ \A k \in 1..2 : "platform" \in DOMAIN response.body.obj.manifests[k]
  /\ response.body.obj.manifests[1].platform = [architecture |-> "amd64", os |-> "windows"]
  /\ response.body.obj.manifests[2].platform = [architecture |-> "arm64", os |-> "linux"]

\* the bytes of layer j (counted from one) that were hashed: in the archive
\* once added, in the layer file before
LayerBytes(j) ==
  IF Len(tar) >= j + 1
  THEN tar[j + 1].data.data
  ELSE (CHOOSE f \in files : f.name = << "layer_", j - 1, ".tar.gz" >>).data.data

\* C5: the verification of a layer reports success exactly when "sha256:"
\* followed by the sha256 of the received bytes is the layer's digest in the
\* manifest, and failure otherwise; no run ends in the verification; after
\* it, whatever it reported, the layer is added before the next one is
\* processed, and a finished run has added every layer and manifest.json.
C5_VerifyNonFatal ==
  /\ \A j \in 1..Len(verify_log) :
       /\ verify_log[j] \in { "verified successfully", "hash mismatch" }
       /\ verify_log[j] = "verified successfully"
            <=> manifest.layers[j].digest = << "sha256:", sha256_hexdigest(LayerBytes(j)) >>
       /\ j < Len(verify_log) => Len(tar) >= j + 1
  /\ exit.how \in { "raise", "return", "sysexit" } => ~ (exit.line \in 104..110)
  /\ pc = "add_layer" => Len(verify_log) = i + 1
  /\ pc \in { "fetch_layer", "write_layer", "verify_layer" } => Len(verify_log) = i
  /\ Len(tar) >= 1 => Len(verify_log) >= Len(tar) - 2
  /\ exit.how = "done" =>
       /\ Len(verify_log) = NLayers
       /\ Len(tar) = NLayers + 2
       /\ tar[Len(tar)].name = << "manifest.json" >>
       /\ tar_state = "closed"

\* a finished run both of whose layers failed the verification
C5_Witness ==
  /\ exit.how = "done"
  /\ verify_log = << "hash mismatch", "hash mismatch" >>
  /\ Len(tar) = 4

\* the run was ended by an auth failure (lines 12-13), a non-success status
\* of a manifest request (lines 34, 56) or of the config blob request (line
\* 70, its error body being no JSON), a missing platform (line 47) or a
\* malformed manifest: no layers (line 64), a config or a layer without its
\* digest (lines 67, 96), a layer without its size (line 75)
AbortedByFailure ==
  /\ pc = "end"
  /\ \/ exit.how = "raise" /\ exit.line \in { 12, 13 }
     \/ exit.how = "return" /\ exit.line \in { 34, 56 }
     \/ exit = [how |-> "raise", line |-> 70] /\ config_response.status_code # 200
     \/ exit = [how |-> "return", line |-> 47]
     \/ exit = [how |-> "return", line |-> 64]
     \/ exit.how = "raise" /\ exit.line \in { 67, 75, 96 }

\* C6: a run aborted by an auth failure, a registry failure, a missing
\* platform or a malformed manifest leaves no partial archive at save_path.
C6_NoPartialArchive == AbortedByFailure => tar_state = "none"

\* C7: a config or layer blob response with a non-success status makes the
\* fetch fail: the run ends there without finishing, and the body of such a
\* response is never written into the archive as the config or a layer entry.
C7_BlobStatusChecked ==
  /\ (config_response # Null /\ config_response.status_code # 200) =>
       pc = "end" /\ exit.how = "raise" /\ tar = <<>>
  /\ (layer_response # Null /\ layer_response.status_code # 200) =>
       pc = "end" /\ exit.how = "raise" /\ Len(tar) <= i + 1

\* the repository that the image name stands for
ExpectedRepo ==
  IF \E k \in 1..Len(image) : image[k] = "/" THEN image ELSE << "library", "/" >> \o image

\* C8: the repository is library/<name> for an image name without '/', and
\* the name itself otherwise, and every request of the run, the token request
\* (its scope), both manifest requests and every blob request, is made for
\* this repository.
C8_NormalizedRepo ==
  /\ pc \notin { "main", "normalize" } /\ exit.how # "sysexit" => repo = ExpectedRepo
  /\ \A k \in 1..Len(requests) : requests[k].repo = ExpectedRepo
  /\ pc = "get_manifest" => Len(requests) = 1 /\ requests[1].endpoint = "token"

\* a finished run for a bare name that made the token request, both manifest
\* requests, the config blob request and two layer blob requests
C8_Witness ==
  /\ exit.how = "done"
  /\ image = << "ubuntu" >>
  /\ Len(ManifestRequests) = 2
  /\ Len(BlobRequests) = 3
  /\ requests[1].endpoint = "token"

\* C9: a final manifest without layers, or with an empty layers sequence, is
\* rejected as malformed: the run ends at the validation, no blob is
\* requested and no archive is created.
C9_LayersNonEmpty ==
  ( /\ manifest # Null
    /\ pc # "validate"
    /\ IF "layers" \in DOMAIN manifest THEN Len(manifest.layers) = 0 ELSE TRUE ) =>
      /\ pc = "end"
      /\ exit = [how |-> "return", line |-> 64]
      /\ Len(BlobRequests) = 0
      /\ tar_state = "none"

\* C10: a manifest response with a status other than 200, to the request by
\* tag or to the request by digest, ends the run by the return that follows
\* the request: that request is the last one made, no blob is requested and
\* no archive is created.
C10_ManifestStatusFatal ==
  (response # Null /\ response.status_code # 200) =>
    /\ pc = "end"
    /\ exit.how = "return"
    /\ exit.line = IF manifest_digest = <<>> THEN 34 ELSE 56
    /\ Len(requests) = IF manifest_digest = <<>> THEN 2 ELSE 3
    /\ requests[Len(requests)].endpoint = "manifests"
    /\ requests[Len(requests)].ref = IF manifest_digest = <<>> THEN tag ELSE manifest_digest
    /\ Len(BlobRequests) = 0
    /\ manifest = Null
    /\ tar_state = "none" /\ tar = <<>> /\ files = {}

\* the request by digest answered with status 404
C10_Witness ==
  /\ pc = "end"
  /\ Len(ManifestRequests) = 2
  /\ response.status_code = 404
  /\ exit.line = 56

\* C11: a per-entry file of the working directory (the config file, a
\* layer_<i>.tar.gz, manifest.json) is gone once it is in the archive, and
\* when the run has ended, however it ended, no such file is left.
C11_NoResidue ==
  /\ \A f \in files : \A k \in 1..Len(tar) : tar[k].name # f.name
  /\ pc = "end" => files = {}

\* C12: for a resolved manifest without a config field no config blob is
\* requested and the run does not end in the config handling; the archive's
\* first entry is config.json holding the empty JSON object and the
\* descriptor's Config is "config.json".  With a config field the first entry
\* is <digest-hex>.json, the digest without its "sha256:" prefix, holding the
\* fetched config, and the descriptor's Config names that entry.
C12_ConfigEntry ==
  /\ ("layers" \in DOMAIN manifest /\ "config" \notin DOMAIN manifest) =>
       /\ config_response = Null
       /\ Len(BlobRequests) <= NLayers
       /\ \A k \in 1..Len(BlobRequests) : BlobRequests[k].ref = manifest.layers[k].digest
       /\ exit.how \in { "raise", "return" } => ~ (exit.line \in 66..73 \/ exit.line \in 82..93)
       /\ Len(tar) >= 1 =>
            /\ tar[1].name = << "config.json" >>
            /\ tar[1].data.kind = "json"
            /\ DOMAIN tar[1].data.obj = {}
       /\ tar_state = "closed" => manifest_json[1].Config = << "config.json" >>
  /\ ("layers" \in DOMAIN manifest /\ "config" \in DOMAIN manifest) =>
       /\ Len(tar) >= 1 =>
            /\ tar[1].name = << manifest.config.digest[2], ".json" >>
            /\ tar[1].data.kind = "json"
            /\ tar[1].data.obj = config_response.body.obj
            /\ BlobRequests[1].ref = manifest.config.digest
       /\ tar_state = "closed" => manifest_json[1].Config = tar[1].name

\* a finalised archive of a manifest with a layer and without a config field
C12_Witness ==
  /\ tar_state = "closed"
  /\ "config" \notin DOMAIN manifest
  /\ NLayers >= 1
  /\ tar[1].name = << "config.json" >>

\* a finalised archive of a manifest with a config field
C12_WitnessConfig ==
  /\ tar_state = "closed"
  /\ "config" \in DOMAIN manifest
  /\ tar[1].name = << "h9", ".json" >>

\* the archive entries that hold a blob of the registry: the config entry of
\* a manifest with a config field, and the layer entries
BlobEntries ==
  { k \in 1..Len(tar) :
      \/ k = 1 /\ "config" \in DOMAIN manifest
      \/ tar[k].name[1] = "layer_" }

C14_AuthFailureAborts ==
  ( /\ auth_response # Null
    /\ \/ auth_response.status_code # 200
       \/ auth_response.body.kind # "json"
       \/ "token" \notin DOMAIN auth_response.body.obj ) =>
      /\ pc = "end"
      /\ exit.how = "raise"
      /\ exit.line \in { 12, 13 }
      /\ Len(requests) = 1
      /\ tar_state = "none"

\* C15: the descriptor written as manifest.json has one element, for one
\* image; its RepoTags has the one element "<image>:<tag>" of the image name
\* and tag the caller gave, which is the command line's image argument, not
\* the normalized repository: "ubuntu:20.04" for ubuntu and 20.04.
C15_RepoTags ==
  tar_state = "closed" =>
    /\ Len(manifest_json) = 1
    /\ Len(manifest_json[1].RepoTags) = 1
    /\ manifest_json[1].RepoTags[1] = args.image
    /\ Len(manifest_json[1].RepoTags[1]) = Len(image) + 1 + Len(tag)
    /\ SubSeq(manifest_json[1].RepoTags[1], 1, Len(image)) = image
    /\ manifest_json[1].RepoTags[1][Len(image) + 1] = ":"
    /\ SubSeq(manifest_json[1].RepoTags[1], Len(image) + 2, Len(image) + 1 + Len(tag)) = tag
    /\ (image = << "ubuntu" >> /\ tag = << "20.04" >>) =>
         manifest_json[1].RepoTags[1] = << "ubuntu", ":", "20.04" >>
    /\ tar[Len(tar)].name = << "manifest.json" >>
    /\ tar[Len(tar)].data.items = manifest_json

\* a finalised archive for ubuntu:20.04, whose repository is library/ubuntu
C15_Witness ==
  /\ tar_state = "closed"
  /\ image = << "ubuntu" >>
  /\ tag = << "20.04" >>
  /\ repo = << "library", "/", "ubuntu" >>

\* the image argument has no ':'
NoColon == ~ \E k \in 1..Len(args.image) : args.image[k] = ":"

\* C16: an image argument without ':' ends the process by sys.exit(1) in
\* the first step, before the token request or any other request is made and
\* without any file or archive created; no other argument ends it this way.
C16_UsageError ==
  /\ (NoColon /\ pc # "main") =>
       /\ pc = "end"
       /\ exit = [how |-> "sysexit", line |-> 141]
       /\ requests = << >>
       /\ auth_response = Null
       /\ tar_state = "none" /\ tar = << >> /\ files = {}
  /\ exit.how = "sysexit" => NoColon

\* the process has exited on the argument "ubuntu"
C16_Witness ==
  /\ pc = "end"
  /\ exit.how = "sysexit"
  /\ args.image = << "ubuntu" >>

\* the number of layer blob requests made so far
LayerRequests == Len(BlobRequests) - (IF "config" \in DOMAIN manifest THEN 1 ELSE 0)

\* C17: blobs are processed one at a time in manifest order: when the
\* request for the layer at position n has been made, the config entry and
\* the n - 1 layers before it are in the archive, each of them verified and
\* its file removed, and the requests were made in the order of the
\* manifest's layers; at most one layer is between its request and its
\* addition.
C17_Sequential ==
  LayerRequests >= 1 =>
    /\ Len(tar) >= LayerRequests
    /\ tar[1].name = config_file
    /\ LayerRequests \in { i, i + 1 }
    /\ \A j \in 1..(LayerRequests - 1) :
         /\ tar[j + 1].name = << "layer_", j - 1, ".tar.gz" >>
         /\ Len(verify_log) >= j
         /\ \A f \in files : f.name # << "layer_", j - 1, ".tar.gz" >>
    /\ \A j \in 1..LayerRequests :
         BlobRequests[Len(BlobRequests) - LayerRequests + j].ref = manifest.layers[j].digest
    /\ Cardinality(files) <= 1

\* the second layer has been requested and the first one is in the archive
C17_Witness ==
  /\ pc = "write_layer"
  /\ LayerRequests = 2
  /\ Len(tar) = 2
  /\ tar[2].name = << "layer_", 0, ".tar.gz" >>

\* C18: at most two manifest requests are made.  The first one is for the
\* tag.  The second one is made exactly when the first response's content
\* type is that of an index and an entry was selected; it comes right after
\* the first one, is for the selected entry's digest and accepts single
\* manifests only, and its body is the final manifest.  When the first
\* response is no index, only one manifest request is made and its body is
\* the final manifest.
C18_SecondRequest ==
  LET MR == ManifestRequests IN
    /\ Len(MR) <= 2
    /\ Len(MR) >= 1 =>
         /\ requests[2] = MR[1]
         /\ MR[1].ref = tag
         /\ MR[1].headers.Accept = "list.v2,manifest.v2,oci.manifest.v1"
    /\ Len(MR) = 2 =>
         /\ requests[3] = MR[2]
         /\ manifest_digest # << >>
         /\ MR[2].ref = manifest_digest
         /\ "platform" \in DOMAIN m /\ "digest" \in DOMAIN m
         /\ m.platform = [architecture |-> architecture, os |-> "linux"]
         /\ MR[2].ref = m.digest
         /\ MR[2].headers.Accept = "manifest.v2,oci.manifest.v1"
    /\ pc = "get_manifest_by_digest" =>
         /\ Len(MR) = 1
         /\ response.content_type \in { "application/vnd.docker.distribution.manifest.list.v2+json",
                                        "application/vnd.oci.image.index.v1+json" }
    /\ (manifest_digest # << >> /\ pc # "get_manifest_by_digest") => Len(MR) = 2
    /\ (pc = "validate" /\ Len(MR) = 1) =>
         ~ (response.content_type \in { "application/vnd.docker.distribution.manifest.list.v2+json",
                                        "application/vnd.oci.image.index.v1+json" })
    /\ manifest # Null =>
         /\ response.status_code = 200
         /\ manifest = response.body.obj
         /\ manifest_digest = << >> => Len(MR) = 1

\* a finished run that made both manifest requests
C18_Witness ==
  /\ exit.how = "done"
  /\ Len(ManifestRequests) = 2
  /\ ManifestRequests[2].ref = << "sha256:", "m1" >>

\* a finished run that made one manifest request
C18_WitnessSingle == exit.how = "done" /\ Len(ManifestRequests) = 1

\* no request of the run raised instead of returning a response, and no
\* body stream broke off
EveryRequestAnswered == ~ (exit.how = "raise" /\ exit.line \in { 12, 30, 52, 69, 98, 101 })

\* C19: a run whose requests all return a response does not get stuck
\* before its end and makes no more requests than the token request, two
\* manifest requests, the config request and one request per layer; it ends
\* either aborted with no archive opened, or finalised after exactly N layer
\* requests with manifest.json as the last entry.
C19_AbortedOrFinalised ==
  /\ pc # "end" => ENABLED Next
  /\ Len(requests) <= NLayers + 4
  /\ LayerRequests <= NLayers
  /\ (pc = "end" /\ EveryRequestAnswered) =>
       \/ exit.how # "done" /\ tar_state = "none" /\ tar = << >>
       \/ /\ exit.how = "done"
          /\ tar_state = "closed"
          /\ LayerRequests = NLayers
          /\ tar[Len(tar)].name = << "manifest.json" >>

\* every run reaches its end
C19_Terminates == <>(pc = "end")

====
